---- MODULE Spec2Model ----
(***************************************************************************)
(* State-machine model of the LawFlow decision engine: the spaced          *)
(* repetition scheduler (api/services/spaced_repetition.py) and the        *)
(* rewards ledger (api/services/rewards_engine.py), the exam simulator     *)
(* (api/services/exam_simulator.py) with the mastery updates of the tutor  *)
(* (api/services/tutor_engine.py), and the document processing tasks       *)
(* (api/routes/documents.py, api/routes/rewards.py).                       *)
(*                                                                         *)
(* Conventions.  Time is counted in whole days (`now`); a timedelta of     *)
(* interval_days days is an integer offset.  ease_factor is a float in the *)
(* code; every increment sm2_update applies is a multiple of 0.01, so the  *)
(* model keeps it in hundredths (250 = 2.5).  NULL is a column without a   *)
(* value.  Scores and mastery are floats between 0 and 100 in the code;    *)
(* the model keeps them in units of 1/Scale of a point, fine enough that   *)
(* every weighted sum, mean and blend the runs compute is exact.           *)
(***************************************************************************)
EXTENDS Integers, Sequences, FiniteSets, TLC

\* ------------------------------------------------------------------------
\* Bounds of the model
\* ------------------------------------------------------------------------
MaxTime == 4
MaxReviews == 3

\* ------------------------------------------------------------------------
\* Input domains
\* ------------------------------------------------------------------------
Users == {"u1", "u2"}
Subjects == {"contracts", "torts"}
Qualities == {-1, 2, 3, 4, 5, 6}
Limits == {1, 20}

\* A column without a value (all nullable columns of the model hold numbers).
NULL == -1
\* get_due_cards tests `if subject:`, so None and "" both mean no filter.
NoSubject == ""
NoCard == [exists |-> FALSE]
NoReview == [id |-> ""]

CardIds == {"c1", "c2"}

\* Scores and mastery: the number of model units in one point.
Scale == 10000
Pct(points) == points * Scale

VARIABLES
    now,          \* the clock, in days (datetime.now(timezone.utc))
    cards,        \* spaced_repetition_cards table: id -> row, or NoCard
    lastReview,   \* arguments and prior row of the latest review_card call
    reviewCount,  \* number of review_card calls made so far
    ledger,       \* point_ledger table: the committed rows, in commit order
    profiles,     \* rewards_profile table: user -> row, or NoProfile
    achievements, \* achievements table: user -> key -> row
    mastery,      \* topic_mastery table: user -> topic -> mastery_score
    writer,       \* the call holding the database write lock, or NoCall
    calls,        \* the award_points calls in progress: position, session, result
    lastAward,    \* the award_points call that returned in the last step, if any
    awardCount,   \* number of award_points calls made so far
    subjectMastery, \* subject_mastery table: user -> subject -> mastery_score
    assessments,  \* assessments table: id -> row, or NoAssessment
    questions,    \* assessment_questions table: assessment id -> rows by question_index
    signals,      \* the _process_performance_signals calls in progress
    lastExam,     \* the exam or tutor operation of the last step, with its arguments
    examCount,    \* numbers of grade_answer, complete_exam and signal calls so far
    docs,         \* documents table: id -> row, or NoDoc
    chunks,       \* knowledge_chunks table: document id -> number of stored rows
    tasks,        \* the background processing thread of each document
    topicRows,    \* mastery_score of the subject's topic rows, in query order
    examWeights,  \* aggregated exam weight of each topic, or NULL
    plan          \* the result of the latest generate_teaching_plan call

cardVars == <<cards, lastReview, reviewCount>>
rewardVars == <<ledger, profiles, achievements, mastery, writer, calls,
               lastAward, awardCount>>
awardVars == <<ledger, profiles, achievements, writer, calls, lastAward, awardCount>>
examVars == <<subjectMastery, assessments, questions, signals, lastExam, examCount>>
docVars == <<docs, chunks, tasks>>
teachVars == <<topicRows, examWeights, plan>>
vars == <<now, cards, lastReview, reviewCount,
          ledger, profiles, achievements, mastery, writer, calls,
          lastAward, awardCount,
          subjectMastery, assessments, questions, signals, lastExam, examCount,
          docs, chunks, tasks,
          topicRows, examWeights, plan>>

\* ------------------------------------------------------------------------
\* SpacedRepetitionCard and the SM-2 update
\* ------------------------------------------------------------------------
DEFAULT_EASE == 250
DEFAULT_INTERVAL == 1
DEFAULT_REPETITIONS == 0
MIN_EASE == 130

Max(a, b) == IF a >= b THEN a ELSE b
Min(a, b) == IF a <= b THEN a ELSE b

\* A row as generate_cards_for_chunk inserts it: column defaults, due at once.
NewCard(u, s, t) ==
    [user_id |-> u, subject |-> s,
     ease_factor |-> DEFAULT_EASE, interval_days |-> DEFAULT_INTERVAL,
     repetitions |-> DEFAULT_REPETITIONS,
     next_review |-> t, last_reviewed |-> NULL]

ClampQuality(quality) == Max(0, Min(5, quality))

\* 100 * (0.1 - (5 - q) * (0.08 + (5 - q) * 0.02)) = 10 - (5-q)*(8 + (5-q)*2)
EaseDelta(q) == 10 - (5 - q) * (8 + (5 - q) * 2)

\* ease_factor is never stored below 1.3 (sm2_update line 37).
NewEase_NoFloor(ease, quality) ==
    ease + EaseDelta(ClampQuality(quality))

NewEase(ease, quality) ==
    Max(MIN_EASE, ease + EaseDelta(ClampQuality(quality)))

\* round(interval_days * ease_factor) on the float product.  Away from a
\* decimal tie the result is the nearest integer.  At a decimal tie
\* (x.5) the accumulated binary error of ease_factor puts the float product
\* on either side, so both neighbours are outcomes of the code.
RoundProduct(interval, ease) ==
    LET num == interval * ease
        q == num \div 100
        r == num % 100
    IN  IF 2 * r < 100 THEN {q}
        ELSE IF 2 * r > 100 THEN {q + 1}
        ELSE {q, q + 1}

\* The lapse branch (quality < 3) of sm2_update: (repetitions, interval_days).
LapseReset_KeepInterval(card) == <<0, card.interval_days>>

LapseReset(card) == <<0, 1>>

\* The success branch (quality >= 3): the possible new interval_days, for
\* the already updated ease factor ef.
SuccessIntervals_FlatSecond(card, ef) ==
    IF card.repetitions = 0 THEN {1}
    ELSE IF card.repetitions = 1 THEN {1}
    ELSE RoundProduct(card.interval_days, ef)

SuccessIntervals(card, ef) ==
    IF card.repetitions = 0 THEN {1}
    ELSE IF card.repetitions = 1 THEN {3}
    ELSE RoundProduct(card.interval_days, ef)

\* The set of rows sm2_update can leave for `card` reviewed with `quality`
\* at time t.
sm2_update(card, quality, t) ==
    LET q == ClampQuality(quality)
        ef == NewEase(card.ease_factor, quality)
        intervals == IF q < 3 THEN {LapseReset(card)[2]}
                     ELSE SuccessIntervals(card, ef)
        reps == IF q < 3 THEN LapseReset(card)[1] ELSE card.repetitions + 1
    IN  { [card EXCEPT !.ease_factor = ef,
                       !.interval_days = iv,
                       !.repetitions = reps,
                       !.last_reviewed = t,
                       !.next_review = t + iv] : iv \in intervals }

\* ------------------------------------------------------------------------
\* Card operations
\* ------------------------------------------------------------------------
FreeIds == {i \in CardIds : cards[i] = NoCard}

\* generate_cards_for_chunk: n cards of the chunk's subject for its owner.
GenerateCards(u, s, n) ==
    /\ n >= 1
    /\ Cardinality(FreeIds) >= n
    /\ LET ids == CHOOSE S \in SUBSET FreeIds :
                     Cardinality(S) = n
       IN  cards' = [i \in CardIds |->
                        IF i \in ids THEN NewCard(u, s, now) ELSE cards[i]]
    /\ UNCHANGED <<now, lastReview, reviewCount>>
    /\ UNCHANGED <<rewardVars, examVars, docVars, teachVars>>

\* review_card: the card is looked up by id and owner; an unknown card
\* raises ValueError and nothing is written.
ReviewCard(id, quality, u) ==
    /\ reviewCount < MaxReviews
    /\ cards[id] # NoCard
    /\ cards[id].user_id = u
    /\ \E c \in sm2_update(cards[id], quality, now) :
          /\ cards' = [cards EXCEPT ![id] = c]
          /\ lastReview' = [id |-> id, quality |-> quality, user_id |-> u,
                            at |-> now, before |-> cards[id]]
    /\ reviewCount' = reviewCount + 1
    /\ UNCHANGED now
    /\ UNCHANGED <<rewardVars, examVars, docVars, teachVars>>

\* The clock advances by one day.
Tick ==
    /\ now < MaxTime
    /\ now' = now + 1
    /\ UNCHANGED cardVars
    /\ UNCHANGED <<rewardVars, examVars, docVars, teachVars>>

\* get_due_cards: the possible result lists.
\* ORDER BY next_review leaves the order of equal keys to the database.
DueSet_Strict(u, subject, t) ==
    {i \in CardIds :
        /\ cards[i] # NoCard
        /\ cards[i].user_id = u
        /\ cards[i].next_review < t
        /\ (subject # NoSubject => cards[i].subject = subject)}

DueSet(u, subject, t) ==
    {i \in CardIds :
        /\ cards[i] # NoCard
        /\ cards[i].user_id = u
        /\ cards[i].next_review <= t
        /\ (subject # NoSubject => cards[i].subject = subject)}

Range(seq) == {seq[k] : k \in 1 .. Len(seq)}

Orderings(S) ==
    {seq \in [1 .. Cardinality(S) -> S] :
        /\ Range(seq) = S
        /\ \A a, b \in 1 .. Len(seq) :
              a < b => cards[seq[a]].next_review <= cards[seq[b]].next_review}

get_due_cards(u, subject, limit, t) ==
    {SubSeq(seq, 1, Min(limit, Len(seq))) : seq \in Orderings(DueSet(u, subject, t))}

\* get_card_stats: the counts of the learner's cards, of one subject when a
\* subject is given, at time t.
StatsBase(u, subject) ==
    {i \in CardIds :
        /\ cards[i] # NoCard
        /\ cards[i].user_id = u
        /\ (subject # NoSubject => cards[i].subject = subject)}

get_card_stats_LearningByInterval(u, subject, t) ==
    LET base == StatsBase(u, subject)
    IN  [total |-> Cardinality(base),
         due |-> Cardinality({i \in base : cards[i].next_review <= t}),
         new |-> Cardinality({i \in base : cards[i].repetitions = 0}),
         learning |-> Cardinality({i \in base : cards[i].interval_days <= 7}),
         mature |-> Cardinality({i \in base : cards[i].interval_days > 7})]

get_card_stats(u, subject, t) ==
    LET base == StatsBase(u, subject)
    IN  [total |-> Cardinality(base),
         due |-> Cardinality({i \in base : cards[i].next_review <= t}),
         new |-> Cardinality({i \in base : cards[i].repetitions = 0}),
         learning |-> Cardinality({i \in base :
                          /\ cards[i].repetitions > 0
                          /\ cards[i].interval_days <= 7}),
         mature |-> Cardinality({i \in base : cards[i].interval_days > 7})]

\* ------------------------------------------------------------------------
\* Rewards: catalog, ledger rows, profile, pure helpers
\* ------------------------------------------------------------------------
MaxAwards == 2

Calls == {1, 2}
NoCall == 0
Topics == {"t1", "t2"}

\* ACHIEVEMENT_CATALOG: key -> (points, target).
ACHIEVEMENT_CATALOG ==
    [first_exam       |-> [points |-> 25,  target |-> 1],
     first_upload     |-> [points |-> 50,  target |-> 1],
     streak_3         |-> [points |-> 30,  target |-> 3],
     streak_7         |-> [points |-> 75,  target |-> 7],
     exams_10         |-> [points |-> 100, target |-> 10],
     flashcards_100   |-> [points |-> 50,  target |-> 100],
     mastery_first_80 |-> [points |-> 75,  target |-> 1],
     past_tests_5     |-> [points |-> 150, target |-> 5],
     tutor_20         |-> [points |-> 100, target |-> 20],
     streak_30        |-> [points |-> 300, target |-> 30],
     exams_50         |-> [points |-> 250, target |-> 50],
     flashcards_1000  |-> [points |-> 200, target |-> 1000],
     mastery_all_50   |-> [points |-> 200, target |-> 1],
     past_tests_10    |-> [points |-> 400, target |-> 10],
     perfect_exam     |-> [points |-> 500, target |-> 1]]

AchievementKeys == DOMAIN ACHIEVEMENT_CATALOG

\* ACTIVITY_ACHIEVEMENT_MAP: activity_type -> keys, in list order.
ACTIVITY_ACHIEVEMENT_MAP(activity_type) ==
    CASE activity_type = "exam_complete" -> <<"first_exam", "exams_10", "exams_50">>
      [] activity_type = "flashcard_session" -> <<"flashcards_100", "flashcards_1000">>
      [] activity_type = "tutor_session" -> <<"tutor_20">>
      [] activity_type = "past_test_upload" -> <<"first_upload", "past_tests_5", "past_tests_10">>
      [] OTHER -> <<>>

\* award_points calls as the routes and services make them: complete_exam
\* with score 100 (base 50 + int(score / 2)), complete_flashcard_session with
\* 100 cards of average quality >= 4 (4 points per card), end_session
\* (base 30).  cards and score are the metadata entries the engine reads.
Activities ==
    {[activity_type |-> "exam_complete", base_amount |-> 100, cards |-> 0, score |-> 100],
     [activity_type |-> "flashcard_session", base_amount |-> 400, cards |-> 100, score |-> 0],
     [activity_type |-> "tutor_session", base_amount |-> 30, cards |-> 0, score |-> 0]}

\* _roll_random_bonus: None (0) or a value of randint(5, 50).
RANDOM_BONUS_MIN == 5
RANDOM_BONUS_MAX == 50
BonusRolls == {0, RANDOM_BONUS_MIN}

NoProfile == [exists |-> FALSE]

\* RewardsProfile column defaults.
NewProfile ==
    [current_streak |-> 0, longest_streak |-> 0, last_active_date |-> NULL,
     total_earned |-> 0, level |-> 1]

\* An Achievement row as seed_achievements inserts it.
SeededAchievements ==
    [k \in AchievementKeys |-> [current_value |-> 0, unlocked_at |-> NULL]]

LedgerRow(u, amount, activity_type, key) ==
    [user_id |-> u, amount |-> amount, activity_type |-> activity_type,
     achievement |-> key]

RECURSIVE SumAmounts(_)
SumAmounts(rows) ==
    IF rows = <<>> THEN 0
    ELSE rows[1].amount + SumAmounts(Tail(rows))

RowsOf(rows, u) == SelectSeq(rows, LAMBDA r : r.user_id = u)

\* _calculate_level over LEVEL_THRESHOLDS.
_calculate_level(total_earned) ==
    IF total_earned >= 25000 THEN 10
    ELSE IF total_earned >= 18000 THEN 9
    ELSE IF total_earned >= 12000 THEN 8
    ELSE IF total_earned >= 8000 THEN 7
    ELSE IF total_earned >= 5000 THEN 6
    ELSE IF total_earned >= 3000 THEN 5
    ELSE IF total_earned >= 1500 THEN 4
    ELSE IF total_earned >= 750 THEN 3
    ELSE IF total_earned >= 250 THEN 2
    ELSE 1

\* ------------------------------------------------------------------------
\* Rewards: the session of one award_points call
\* ------------------------------------------------------------------------
\* A session holds the call's uncommitted work: the ledger rows it added and
\* the profile and achievement rows it loaded and changed.
EmptySession == [rows |-> <<>>, profile |-> NoProfile, achievements |-> <<>>]

NoStreakInfo == [is_new_day |-> FALSE, current_streak |-> NULL, bonus |-> 0,
                 achievements |-> <<>>]

\* The result dict as award_points initialises it (lines 54-61).
InitialResult(base_amount) ==
    [points_awarded |-> base_amount, bonus |-> 0, streak_info |-> NoStreakInfo,
     new_balance |-> 0, achievements_unlocked |-> <<>>, level_up |-> 0]

NoActivity == [activity_type |-> "", base_amount |-> 0, cards |-> 0, score |-> 0]

IdleCall ==
    [pc |-> "idle", user_id |-> "", activity |-> NoActivity, today |-> NULL,
     session |-> EmptySession, result |-> InitialResult(0)]

NoAward == [call |-> NoCall]

\* _get_balance inside a session: the committed rows of the user plus the
\* session's own flushed rows.
_get_balance_CommittedOnly(session, u) ==
    SumAmounts(RowsOf(ledger, u))

_get_balance(session, u) ==
    SumAmounts(RowsOf(ledger, u)) + SumAmounts(RowsOf(session.rows, u))

\* get_balance: a fresh session sees the committed rows only.
get_balance(u) == _get_balance(EmptySession, u)

\* _try_unlock_achievement on the session's row of `key`: the new row, and
\* the unlock ledger rows added (none or one).  Rows exist for every key
\* once seeded; a missing row returns None like an unlocked one.
TryUnlockEligible(ach) == ach.unlocked_at = NULL

_try_unlock_achievement(achs, key, value, u, t) ==
    LET ach == achs[key]
        cur == Max(ach.current_value, value)
        hit == cur >= ACHIEVEMENT_CATALOG[key].target
    IN  IF ~TryUnlockEligible(ach)
        THEN [achievements |-> achs, rows |-> <<>>, unlocked |-> <<>>]
        ELSE [achievements |->
                 [achs EXCEPT ![key] =
                     [current_value |-> cur,
                      unlocked_at |-> IF hit THEN t ELSE ach.unlocked_at]],
              rows |-> IF hit
                       THEN <<LedgerRow(u, ACHIEVEMENT_CATALOG[key].points,
                                        "achievement_unlock", key)>>
                       ELSE <<>>,
              unlocked |-> IF hit THEN <<key>> ELSE <<>>]

\* Fold a list of (key, value) unlock attempts, in order.
RECURSIVE TryUnlockAll(_, _, _, _, _)
TryUnlockAll(acc, keys, value, u, t) ==
    IF keys = <<>> THEN acc
    ELSE LET step == _try_unlock_achievement(acc.achievements, keys[1], value, u, t)
         IN  TryUnlockAll([achievements |-> step.achievements,
                           rows |-> acc.rows \o step.rows,
                           unlocked |-> acc.unlocked \o step.unlocked],
                          Tail(keys), value, u, t)

NothingUnlocked(achs) == [achievements |-> achs, rows |-> <<>>, unlocked |-> <<>>]

\* _check_achievements: the counter achievements of the activity type.
CounterEligible_Always(ach) == TRUE

CounterEligible(ach) == ach.unlocked_at = NULL

RECURSIVE CheckCounters(_, _, _, _, _)
CheckCounters(acc, keys, increment, u, t) ==
    IF keys = <<>> THEN acc
    ELSE LET key == keys[1]
             ach == acc.achievements[key]
             cur == ach.current_value + increment
             hit == cur >= ACHIEVEMENT_CATALOG[key].target
             next ==
                 IF ~CounterEligible(ach) THEN acc
                 ELSE [achievements |->
                          [acc.achievements EXCEPT ![key] =
                              [current_value |-> cur,
                               unlocked_at |-> IF hit THEN t ELSE ach.unlocked_at]],
                       rows |-> IF hit
                                THEN Append(acc.rows,
                                        LedgerRow(u, ACHIEVEMENT_CATALOG[key].points,
                                                  "achievement_unlock", key))
                                ELSE acc.rows,
                       unlocked |-> IF hit THEN Append(acc.unlocked, key)
                                    ELSE acc.unlocked]
         IN  CheckCounters(next, Tail(keys), increment, u, t)

_check_achievements(achs, activity, u, t) ==
    CheckCounters(NothingUnlocked(achs),
                  ACTIVITY_ACHIEVEMENT_MAP(activity.activity_type),
                  IF activity.activity_type = "flashcard_session"
                  THEN activity.cards ELSE 1,
                  u, t)

\* _check_mastery_achievements: mastery_first_80 when some topic is at 80 or
\* more, mastery_all_50 when the learner has topics and all are at 50 or more.
TopicScores(u) == {mastery[u][tp] : tp \in {x \in Topics : mastery[u][x] # NULL}}

_check_mastery_achievements(achs, u, t) ==
    LET first == IF achs["mastery_first_80"].unlocked_at = NULL
                    /\ \E sc \in TopicScores(u) : sc >= Pct(80)
                 THEN _try_unlock_achievement(achs, "mastery_first_80", 1, u, t)
                 ELSE NothingUnlocked(achs)
        all == IF first.achievements["mastery_all_50"].unlocked_at = NULL
                  /\ TopicScores(u) # {}
                  /\ \A sc \in TopicScores(u) : sc >= Pct(50)
               THEN _try_unlock_achievement(first.achievements, "mastery_all_50", 1, u, t)
               ELSE NothingUnlocked(first.achievements)
    IN  [achievements |-> all.achievements,
         rows |-> first.rows \o all.rows,
         unlocked |-> first.unlocked \o all.unlocked]

\* ------------------------------------------------------------------------
\* Rewards: award_points, step by step
\* ------------------------------------------------------------------------
\* Positions of a call: "idle" (not started), "flush" (rows added to the
\* session, first flush pending), "today", "streak" (inside _update_streak),
\* "achievements", "profile", "commit" (leaving the `with get_db()` block).
InFlight == {"flush", "today", "streak", "achievements", "profile", "commit"}

\* The engine is created on config.DATABASE_URL, by default a SQLite file in
\* WAL mode: one write transaction at a time.  The first flush of a session
\* (the autoflush before the profile query) begins its write transaction.
WriteLockFree_Unchecked == TRUE

WriteLockFree == writer = NoCall

\* Steps 1 and 2: the base row and, if the roll gives one, the bonus row are
\* added to the session; nothing is sent to the database yet.
BeginAward(c, u, activity, bonus) ==
    /\ awardCount < MaxAwards
    /\ calls[c].pc = "idle"
    /\ \A d \in Calls : d < c => calls[d].pc # "idle"
    /\ LET base == LedgerRow(u, activity.base_amount, activity.activity_type, "")
           rows == IF bonus # 0
                   THEN <<base, LedgerRow(u, bonus, "random_bonus", "")>>
                   ELSE <<base>>
           result == [InitialResult(activity.base_amount) EXCEPT
                         !.bonus = bonus,
                         !.points_awarded = activity.base_amount + bonus]
       IN  calls' = [calls EXCEPT ![c] =
                        [pc |-> "flush", user_id |-> u, activity |-> activity,
                         today |-> NULL,
                         session |-> [EmptySession EXCEPT !.rows = rows],
                         result |-> result]]
    /\ awardCount' = awardCount + 1
    /\ lastAward' = NoAward
    /\ UNCHANGED <<ledger, profiles, achievements, mastery, writer>>
    /\ UNCHANGED <<now, cardVars, examVars, docVars, teachVars>>

\* _get_or_create_profile: the query autoflushes the pending rows, which
\* takes the write lock, then loads the learner's rows (a missing profile is
\* created with the column defaults).
_get_or_create_profile(u) ==
    IF profiles[u] = NoProfile THEN NewProfile ELSE profiles[u]

Flush(c) ==
    /\ calls[c].pc = "flush"
    /\ WriteLockFree
    /\ writer' = c
    /\ calls' = [calls EXCEPT
                    ![c].pc = "today",
                    ![c].session.profile = _get_or_create_profile(calls[c].user_id),
                    ![c].session.achievements = achievements[calls[c].user_id]]
    /\ lastAward' = NoAward
    /\ UNCHANGED <<ledger, profiles, achievements, mastery, awardCount>>
    /\ UNCHANGED <<now, cardVars, examVars, docVars, teachVars>>

\* _update_streak, first clock read (line 266) and the same-day return.
ActiveToday_Never(profile, today) == FALSE

ActiveToday(profile, today) == profile.last_active_date = today

ReadToday(c) ==
    /\ calls[c].pc = "today"
    /\ LET profile == calls[c].session.profile
       IN  IF ActiveToday(profile, now)
           THEN calls' = [calls EXCEPT
                    ![c].pc = "achievements",
                    ![c].today = now,
                    ![c].result.streak_info =
                        [NoStreakInfo EXCEPT !.current_streak = profile.current_streak]]
           ELSE calls' = [calls EXCEPT ![c].pc = "streak", ![c].today = now]
    /\ lastAward' = NoAward
    /\ UNCHANGED <<ledger, profiles, achievements, mastery, writer, awardCount>>
    /\ UNCHANGED <<now, cardVars, examVars, docVars, teachVars>>

\* _update_streak, second clock read (line 276) to the end.
Yesterday(profile, t) ==
    IF profile.last_active_date # NULL THEN t - 1 ELSE NULL

NextStreak(profile, yesterday) ==
    IF profile.last_active_date = yesterday
    THEN profile.current_streak + 1
    ELSE 1

StreakKeys(streak) ==
    SelectSeq(<<"streak_3", "streak_7", "streak_30">>,
              LAMBDA k : streak >= ACHIEVEMENT_CATALOG[k].target)

UpdateStreak(c) ==
    /\ calls[c].pc = "streak"
    /\ LET u == calls[c].user_id
           old == calls[c].session.profile
           streak == NextStreak(old, Yesterday(old, now))
           profile == [old EXCEPT
                          !.current_streak = streak,
                          !.last_active_date = calls[c].today,
                          !.longest_streak = Max(old.longest_streak, streak)]
           streak_bonus == 10 * Min(streak, 7)
           unlocks == TryUnlockAll(NothingUnlocked(calls[c].session.achievements),
                                   StreakKeys(streak), streak, u, now)
       IN  calls' = [calls EXCEPT
                ![c].pc = "achievements",
                ![c].session.profile = profile,
                ![c].session.achievements = unlocks.achievements,
                ![c].session.rows =
                    Append(calls[c].session.rows,
                           LedgerRow(u, streak_bonus, "streak_bonus", ""))
                    \o unlocks.rows,
                ![c].result.streak_info =
                    [is_new_day |-> TRUE, current_streak |-> streak,
                     bonus |-> streak_bonus, achievements |-> unlocks.unlocked],
                ![c].result.points_awarded =
                    calls[c].result.points_awarded + streak_bonus]
    /\ lastAward' = NoAward
    /\ UNCHANGED <<ledger, profiles, achievements, mastery, writer, awardCount>>
    /\ UNCHANGED <<now, cardVars, examVars, docVars, teachVars>>

RECURSIVE SumPoints(_)
SumPoints(keys) ==
    IF keys = <<>> THEN 0
    ELSE ACHIEVEMENT_CATALOG[keys[1]].points + SumPoints(Tail(keys))

\* Step 4: counter achievements, perfect_exam, mastery achievements.
CheckAchievements(c) ==
    /\ calls[c].pc = "achievements"
    /\ LET u == calls[c].user_id
           activity == calls[c].activity
           counters == _check_achievements(calls[c].session.achievements,
                                           activity, u, now)
           perfect ==
               IF activity.activity_type = "exam_complete" /\ activity.score = 100
               THEN _try_unlock_achievement(counters.achievements,
                                            "perfect_exam", 1, u, now)
               ELSE NothingUnlocked(counters.achievements)
           mast ==
               IF activity.activity_type = "exam_complete"
               THEN _check_mastery_achievements(perfect.achievements, u, now)
               ELSE NothingUnlocked(perfect.achievements)
           unlocked == counters.unlocked \o perfect.unlocked \o mast.unlocked
       IN  calls' = [calls EXCEPT
                ![c].pc = "profile",
                ![c].session.achievements = mast.achievements,
                ![c].session.rows =
                    calls[c].session.rows \o counters.rows \o perfect.rows \o mast.rows,
                ![c].result.achievements_unlocked = unlocked,
                ![c].result.points_awarded =
                    calls[c].result.points_awarded + SumPoints(unlocked)]
    /\ lastAward' = NoAward
    /\ UNCHANGED <<ledger, profiles, achievements, mastery, writer, awardCount>>
    /\ UNCHANGED <<now, cardVars, examVars, docVars, teachVars>>

\* Steps 5 and 6: profile totals and level, flush, balance.
UpdateProfile(c) ==
    /\ calls[c].pc = "profile"
    /\ LET old == calls[c].session.profile
           total == old.total_earned + calls[c].result.points_awarded
           new_level == _calculate_level(total)
           session == [calls[c].session EXCEPT
                          !.profile = [old EXCEPT !.total_earned = total,
                                                  !.level = new_level]]
       IN  calls' = [calls EXCEPT
                ![c].pc = "commit",
                ![c].session = session,
                ![c].result.level_up =
                    IF new_level > old.level THEN new_level ELSE 0,
                ![c].result.new_balance = _get_balance(session, calls[c].user_id)]
    /\ lastAward' = NoAward
    /\ UNCHANGED <<ledger, profiles, achievements, mastery, writer, awardCount>>
    /\ UNCHANGED <<now, cardVars, examVars, docVars, teachVars>>

\* What the caller of call c gets back, and whether the session committed.
Returned(c, committed) ==
    [call |-> c, user_id |-> calls[c].user_id, activity |-> calls[c].activity,
     today |-> calls[c].today, result |-> calls[c].result,
     committed |-> committed]

\* get_db commits when the block ends without an exception.
Commit(c) ==
    /\ calls[c].pc = "commit"
    /\ LET u == calls[c].user_id
       IN  /\ ledger' = ledger \o calls[c].session.rows
           /\ profiles' = [profiles EXCEPT ![u] = calls[c].session.profile]
           /\ achievements' = [achievements EXCEPT ![u] = calls[c].session.achievements]
    /\ writer' = NoCall
    /\ calls' = [calls EXCEPT ![c] = IdleCall]
    /\ lastAward' = Returned(c, TRUE)
    /\ UNCHANGED <<mastery, awardCount>>
    /\ UNCHANGED <<now, cardVars, examVars, docVars, teachVars>>

\* get_db rolls the session back when the block, or the commit, raises; the
\* rows of the table after the rollback.
RolledBack_KeepsFlushed(c) ==
    IF calls[c].pc = "flush" THEN ledger ELSE ledger \o calls[c].session.rows

RolledBack(c) == ledger

\* Any database statement of the call can raise (lock timeout on the first
\* flush, I/O error, failed commit): award_points logs it and returns the
\* result dict as it stands.
Fail(c) ==
    /\ calls[c].pc \in InFlight
    /\ ledger' = RolledBack(c)
    /\ writer' = IF writer = c THEN NoCall ELSE writer
    /\ calls' = [calls EXCEPT ![c] = IdleCall]
    /\ lastAward' = Returned(c, FALSE)
    /\ UNCHANGED <<profiles, achievements, mastery, awardCount>>
    /\ UNCHANGED <<now, cardVars, examVars, docVars, teachVars>>

\* ------------------------------------------------------------------------
\* Exams: generate_exam, grade_answer, complete_exam
\* ------------------------------------------------------------------------
MaxGrades == 2
MaxCompletions == 2
MaxSignals == 1

AssessmentIds == {"a1"}
NoAssessment == [exists |-> FALSE]
\* A question the collaborator returned without a topic.
NoTopic == ""
\* The subject all rows of topic_mastery belong to.
TaxonomySubject == "contracts"
NoExam == [op |-> ""]

Question(question_type, topic) ==
    [question_type |-> question_type, topic |-> topic, score |-> NULL]

\* The question lists the collaborator may return to generate_exam.
Papers ==
    { <<Question("mc", "t1"), Question("essay", "t1")>>,
      <<Question("essay", "t1"), Question("issue_spot", "t2"),
        Question("mc", NoTopic)>> }

\* num_questions of a generate_exam request.
Counts == {2, 3}

\* What a grading call meets.  kind "answer": a multiple-choice answer;
\* "short": a free-text answer of fewer than 10 characters; "malformed":
\* the collaborator's text is not JSON; "absent": the collaborator call
\* raises; "json": the parsed grading, a dict with the keys it has.
EssayGrading(issue, rule, application, conclusion, overall) ==
    [kind |-> "json",
     grading |-> [issue_spotting |-> issue, rule_accuracy |-> rule,
                  application_depth |-> application,
                  conclusion_support |-> conclusion, overall_score |-> overall]]

Outputs(question_type) ==
    IF question_type = "mc"
    THEN {[kind |-> "answer", correct |-> TRUE], [kind |-> "answer", correct |-> FALSE]}
    ELSE {[kind |-> "short"], [kind |-> "malformed"], [kind |-> "absent"]} \cup
         IF question_type = "essay"
         THEN { EssayGrading(80, 60, 100, 40, 0),
                EssayGrading(80, 60, 100, 40, 100),
                EssayGrading(200, 200, 200, 200, 100),
                [kind |-> "json",
                 grading |-> [rule_accuracy |-> 0, application_depth |-> 0,
                              conclusion_support |-> -200, overall_score |-> 10]] }
         ELSE { [kind |-> "json", grading |-> [score |-> 80]],
                [kind |-> "json", grading |-> [score |-> 150]] }


\* IRAC_WEIGHTS, in hundredths.
IRAC_WEIGHTS ==
    [issue_spotting |-> 30, rule_accuracy |-> 20,
     application_depth |-> 35, conclusion_support |-> 15]

\* grading.get(key, 50)
GetOr50(grading, key) == IF key \in DOMAIN grading THEN grading[key] ELSE 50

\* The fallback _grade_essay substitutes when the text is not JSON.
EssayFallback ==
    [issue_spotting |-> 50, rule_accuracy |-> 50, application_depth |-> 50,
     conclusion_support |-> 50, overall_score |-> 50]

IssueSpotFallback == [score |-> 50]

\* _grade_essay: the weighted sum of the four sub-scores, in model units.
WeightedScore_TrustOverall(grading) == Pct(GetOr50(grading, "overall_score"))

WeightedScore(grading) ==
    ( GetOr50(grading, "issue_spotting") * IRAC_WEIGHTS["issue_spotting"]
    + GetOr50(grading, "rule_accuracy") * IRAC_WEIGHTS["rule_accuracy"]
    + GetOr50(grading, "application_depth") * IRAC_WEIGHTS["application_depth"]
    + GetOr50(grading, "conclusion_support") * IRAC_WEIGHTS["conclusion_support"] )
    * (Scale \div 100)

\* The score each grader stores for an output that does not raise.
_grade_mc(out) == IF out.correct THEN Pct(100) ELSE 0

_grade_essay(out) ==
    IF out.kind = "short" THEN 0
    ELSE IF out.kind = "malformed" THEN WeightedScore(EssayFallback)
    ELSE WeightedScore(out.grading)

_grade_issue_spot(out) ==
    IF out.kind = "short" THEN 0
    ELSE IF out.kind = "malformed" THEN Pct(GetOr50(IssueSpotFallback, "score"))
    ELSE Pct(GetOr50(out.grading, "score"))

StoredScore(question_type, out) ==
    IF question_type = "mc" THEN _grade_mc(out)
    ELSE IF question_type = "issue_spot" THEN _grade_issue_spot(out)
    ELSE _grade_essay(out)

\* ---- topic_mastery and subject_mastery lookups
HasTopic(u, subject, topic) ==
    /\ subject = TaxonomySubject
    /\ topic \in Topics
    /\ mastery[u][topic] # NULL

TopicsOf(table, u, subject) ==
    IF subject = TaxonomySubject
    THEN {tp \in Topics : table[u][tp] # NULL}
    ELSE {}

RECURSIVE SumSeq(_)
SumSeq(seq) == IF seq = <<>> THEN 0 ELSE Head(seq) + SumSeq(Tail(seq))

RECURSIVE SumScores(_, _)
SumScores(row, topics) ==
    IF topics = {} THEN 0
    ELSE LET tp == CHOOSE x \in topics : TRUE
         IN  row[tp] + SumScores(row, topics \ {tp})

\* sum(t.mastery_score for t in topics) / len(topics)
SubjectMean(table, u, subject) ==
    SumScores(table[u], TopicsOf(table, u, subject))
        \div Cardinality(TopicsOf(table, u, subject))

\* max(0, min(100, x))
Clamp_Open(x) == x

Clamp(x) == Max(0, Min(Pct(100), x))

\* topic.mastery_score * 0.6 + avg_score * 0.4
Blend_ExamOnly(old, avg_score) == avg_score

Blend(old, avg_score) == (6 * old + 4 * avg_score) \div 10

\* ---- generate_exam
FreeAssessments == {a \in AssessmentIds : assessments[a] = NoAssessment}

\* generate_exam raises ValueError when the learner has no topic rows for
\* the subject; otherwise it stores what the collaborator returned.
GenerateExam(u, subject, num_questions, paper) ==
    /\ FreeAssessments # {}
    /\ LET a == CHOOSE x \in FreeAssessments : TRUE
       IN  IF TopicsOf(mastery, u, subject) = {}
           THEN /\ lastExam' = [op |-> "generate", ok |-> FALSE]
                /\ UNCHANGED <<assessments, questions>>
           ELSE /\ assessments' =
                      [assessments EXCEPT ![a] =
                          [exists |-> TRUE, user_id |-> u, subject |-> subject,
                           total_questions |-> Len(paper), completed_at |-> NULL]]
                /\ questions' = [questions EXCEPT ![a] = paper]
                /\ lastExam' = [op |-> "generate", ok |-> TRUE, id |-> a,
                                num_questions |-> num_questions]
    /\ UNCHANGED <<mastery, subjectMastery, signals, examCount>>
    /\ UNCHANGED <<now, cardVars, awardVars, docVars, teachVars>>

\* ---- grade_answer
QuestionFound_AnyOwner(a, index, u) ==
    /\ assessments[a] # NoAssessment
    /\ index \in 1 .. Len(questions[a])

QuestionFound(a, index, u) ==
    /\ assessments[a] # NoAssessment
    /\ assessments[a].user_id = u
    /\ index \in 1 .. Len(questions[a])

NoOutput == [kind |-> "none"]

\* What a grading call for the question may meet (nothing is graded for an
\* unknown question).
OutputsFor(a, index, u) ==
    IF QuestionFound(a, index, u)
    THEN Outputs(questions[a][index].question_type)
    ELSE {NoOutput}

AllOutputs == UNION {Outputs(t) : t \in {"mc", "essay", "issue_spot"}} \cup {NoOutput}

\* grade_answer: an unknown question raises ValueError; a collaborator call
\* that raises leaves the score as it was; every other output stores a score.
GradeAnswer(a, index, u, out) ==
    /\ out \in OutputsFor(a, index, u)
    /\ IF ~QuestionFound(a, index, u)
       THEN /\ lastExam' = [op |-> "grade", ok |-> FALSE]
            /\ UNCHANGED <<questions, examCount>>
       ELSE LET q == questions[a][index]
            IN  /\ examCount.grades < MaxGrades
                /\ questions' =
                      IF out.kind = "absent" THEN questions
                      ELSE [questions EXCEPT ![a][index].score =
                                StoredScore(q.question_type, out)]
                /\ lastExam' = [op |-> "grade", ok |-> out.kind # "absent",
                                id |-> a, index |-> index, user_id |-> u,
                                out |-> out]
                /\ examCount' = [examCount EXCEPT !.grades = @ + 1]
    /\ UNCHANGED <<mastery, subjectMastery, assessments, signals>>
    /\ UNCHANGED <<now, cardVars, awardVars, docVars, teachVars>>

\* ---- complete_exam
\* topic_scores: the scores of the graded questions of each topic.
Graded(a, topic) ==
    SelectSeq(questions[a], LAMBDA q : q.topic = topic /\ q.score # NULL)

ScoresFor(a, topic) == [k \in 1 .. Len(Graded(a, topic)) |-> Graded(a, topic)[k].score]

\* `if q.topic and q.score is not None`; a topic outside the taxonomy has no
\* topic_mastery row and is skipped by _update_mastery_from_exam.
ExamTopics(a) == {tp \in Topics : tp # NoTopic /\ Graded(a, tp) # <<>>}

AvgScore(a, topic) == SumSeq(ScoresFor(a, topic)) \div Len(ScoresFor(a, topic))

_update_mastery_from_exam(table, a, subject, u) ==
    [table EXCEPT ![u] =
        [tp \in Topics |->
            IF tp \in ExamTopics(a) /\ HasTopic(u, subject, tp)
            THEN Clamp(Blend(table[u][tp], AvgScore(a, tp)))
            ELSE table[u][tp]]]

\* The subject row, when there is one, takes the mean of the topic rows.
RecomputeSubject(subj, view, u, subject) ==
    IF subj[u][subject] # NULL /\ TopicsOf(view, u, subject) # {}
    THEN [subj EXCEPT ![u][subject] = SubjectMean(view, u, subject)]
    ELSE subj

\* complete_exam.  Its flush of the assessment row (line 586) takes the
\* write lock before any mastery row is read, so the step is atomic.  The
\* award_points call it makes runs in a session of its own and writes none
\* of these tables.
CompleteExam(a, u) ==
    /\ IF assessments[a] = NoAssessment \/ assessments[a].user_id # u
       THEN /\ lastExam' = [op |-> "complete", ok |-> FALSE]
            /\ UNCHANGED <<assessments, mastery, subjectMastery, examCount>>
       ELSE /\ examCount.completions < MaxCompletions
            /\ assessments' = [assessments EXCEPT ![a].completed_at = now]
            /\ mastery' = _update_mastery_from_exam(mastery, a, assessments[a].subject, u)
            /\ subjectMastery' =
                  RecomputeSubject(subjectMastery, mastery', u, assessments[a].subject)
            /\ lastExam' = [op |-> "complete", ok |-> TRUE, id |-> a, user_id |-> u,
                            subject |-> assessments[a].subject]
            /\ examCount' = [examCount EXCEPT !.completions = @ + 1]
    /\ UNCHANGED <<questions, signals>>
    /\ UNCHANGED <<now, cardVars, awardVars, docVars, teachVars>>

\* ------------------------------------------------------------------------
\* Tutor: _process_performance_signals
\* ------------------------------------------------------------------------
SignalCalls == {1}

\* study_sessions rows.
StudySessions ==
    [s1 |-> [user_id |-> "u1", subject |-> "contracts"],
     s2 |-> [user_id |-> "u1", subject |-> "torts"]]

SessionIds == {"s1", "s2"}

Delta(topic, delta) == [topic |-> topic, delta |-> delta]

\* The mastery_delta dicts the collaborator may return, in key order.
DeltaSets ==
    { <<Delta("t1", 0), Delta("t2", Pct(5))>>,
      <<Delta("t1", 0 - Pct(200)), Delta("t2", Pct(500))>>,
      <<Delta("t9", Pct(10))>> }

IdleSignal ==
    [pc |-> "idle", user_id |-> "", subject |-> "", deltas |-> <<>>,
     first |-> 0, seen |-> NULL, pending |-> NULL]

\* The first delta whose topic row exists, or 0.
FirstFound(u, subject, deltas) ==
    IF \E k \in 1 .. Len(deltas) : HasTopic(u, subject, deltas[k].topic)
    THEN CHOOSE k \in 1 .. Len(deltas) :
            /\ HasTopic(u, subject, deltas[k].topic)
            /\ \A j \in 1 .. k - 1 : ~HasTopic(u, subject, deltas[j].topic)
    ELSE 0

\* The reads the call makes before its first write.  The session runs its
\* SELECTs outside a transaction until the first flush, so other calls may
\* commit after them.  The first topic row found is read here (line 328);
\* when no topic row is found the subject row and the topic rows are read
\* here (lines 347, 349) and the only write is the subject row at commit.
ReadSignals(p, sid, u, deltas) ==
    /\ examCount.signals < MaxSignals
    /\ signals[p].pc = "idle"
    /\ \A o \in SignalCalls : o < p => signals[o].pc # "idle"
    /\ IF StudySessions[sid].user_id # u
       THEN \* no session: subject is None and nothing is read or written
            /\ lastExam' = [op |-> "signal", ok |-> FALSE]
            /\ UNCHANGED <<signals, examCount>>
       ELSE LET subject == StudySessions[sid].subject
                first == FirstFound(u, subject, deltas)
                call == [IdleSignal EXCEPT !.user_id = u, !.subject = subject,
                                           !.deltas = deltas, !.first = first]
            IN  /\ signals' = [signals EXCEPT ![p] =
                      IF first > 0
                      THEN [call EXCEPT !.pc = "topic",
                                        !.seen = mastery[u][deltas[first].topic]]
                      ELSE [call EXCEPT
                              !.pc = "subject",
                              !.seen = subjectMastery[u][subject],
                              !.pending =
                                 IF subjectMastery[u][subject] # NULL
                                    /\ TopicsOf(mastery, u, subject) # {}
                                 THEN SubjectMean(mastery, u, subject)
                                 ELSE subjectMastery[u][subject]]]
                /\ lastExam' = NoExam
                /\ examCount' = [examCount EXCEPT !.signals = @ + 1]
    /\ UNCHANGED <<mastery, subjectMastery, assessments, questions>>
    /\ UNCHANGED <<now, cardVars, awardVars, docVars, teachVars>>

\* The deltas after the first found one: each topic row is read after the
\* flush of the rows changed before it, inside the write transaction.
\* `tables` holds the committed table and the session's view of it.
RECURSIVE ApplyRest(_, _, _, _, _)
ApplyRest(tables, u, subject, deltas, k) ==
    IF k > Len(deltas) THEN tables
    ELSE LET tp == deltas[k].topic
         IN  IF ~HasTopic(u, subject, tp)
             THEN ApplyRest(tables, u, subject, deltas, k + 1)
             ELSE LET new_score == Clamp(tables.db[u][tp] + deltas[k].delta)
                  IN  ApplyRest([db |-> [tables.db EXCEPT ![u][tp] = new_score],
                                 view |-> [tables.view EXCEPT ![u][tp] = new_score]],
                                u, subject, deltas, k + 1)

\* The session keeps the first topic row as it loaded and changed it; a
\* later query does not refresh a row the session already holds.
FirstRowView(call, new_score) == new_score

\* The writes of a call whose first topic row was read at `seen`.  The
\* UPDATE of a row carries mastery_score only when the new value differs
\* from the loaded one.
ApplyDeltas(call) ==
    LET u == call.user_id
        tp == call.deltas[call.first].topic
        new_score == Clamp(call.seen + call.deltas[call.first].delta)
        first == [db |-> IF new_score # call.seen
                         THEN [mastery EXCEPT ![u][tp] = new_score]
                         ELSE mastery,
                  view |-> [mastery EXCEPT ![u][tp] = FirstRowView(call, new_score)]]
    IN  ApplyRest(first, u, call.subject, call.deltas, call.first + 1)

\* From the first flush to the commit the call holds the write lock.
ApplySignals(p) ==
    /\ signals[p].pc \in {"topic", "subject"}
    /\ LET call == signals[p]
           u == call.user_id
       IN  /\ IF call.pc = "topic"
              THEN /\ mastery' = ApplyDeltas(call).db
                   /\ subjectMastery' =
                         RecomputeSubject(subjectMastery, ApplyDeltas(call).view,
                                          u, call.subject)
              ELSE /\ mastery' = mastery
                   /\ subjectMastery' =
                         IF call.pending # call.seen
                         THEN [subjectMastery EXCEPT ![u][call.subject] = call.pending]
                         ELSE subjectMastery
           /\ lastExam' = [op |-> "signal", ok |-> TRUE, user_id |-> u,
                           subject |-> call.subject]
    /\ signals' = [signals EXCEPT ![p] = IdleSignal]
    /\ UNCHANGED <<assessments, questions, examCount>>
    /\ UNCHANGED <<now, cardVars, awardVars, docVars, teachVars>>

\* ------------------------------------------------------------------------
\* Documents: upload and the background processing tasks
\* ------------------------------------------------------------------------
DocIds == {"d1", "d2"}
NoDoc == [exists |-> FALSE]
\* "notes": upload_document and _process_document; "past_test":
\* upload_past_test and _process_past_test.
DocTypes == {"notes", "past_test"}
\* Lengths of the list tag_chunks_batch may return.
TaggedCounts == {1, 2}

\* Positions of a task: "none" (no thread), "start" (thread started),
\* "extract" (status written, extraction and tagging ahead), "save" (tagged,
\* save transaction ahead), "reward" (past test saved, analysis and points
\* ahead), "failed" (an exception reached the handler), "done" (thread
\* returned), "dead" (the handler's own transaction raised).
NoTask == [pc |-> "none", tagged |-> 0, failed |-> FALSE]

\* The upload request: the pending row is committed, then the thread starts.
UploadDocument(d, doc_type) ==
    /\ docs[d] = NoDoc
    /\ d = "d1" \/ docs["d1"] # NoDoc
    /\ docs' = [docs EXCEPT ![d] =
            [exists |-> TRUE, doc_type |-> doc_type, processing_status |-> "pending",
             total_chunks |-> 0, error_message |-> FALSE]]
    /\ tasks' = [tasks EXCEPT ![d] = [NoTask EXCEPT !.pc = "start"]]
    /\ UNCHANGED chunks
    /\ UNCHANGED <<now, cardVars, rewardVars, examVars, teachVars>>

\* First transaction of the task: the status becomes "processing".
StartProcessing(d) ==
    /\ tasks[d].pc = "start"
    /\ docs' = [docs EXCEPT ![d].processing_status = "processing"]
    /\ tasks' = [tasks EXCEPT ![d].pc = "extract"]
    /\ UNCHANGED chunks
    /\ UNCHANGED <<now, cardVars, rewardVars, examVars, teachVars>>

\* extract_document, chunk_sections and tag_chunks_batch return.
TagChunks(d, n) ==
    /\ tasks[d].pc = "extract"
    /\ tasks' = [tasks EXCEPT ![d].pc = "save", ![d].tagged = n]
    /\ UNCHANGED <<docs, chunks>>
    /\ UNCHANGED <<now, cardVars, rewardVars, examVars, teachVars>>

\* Second transaction: the chunk rows, the status and total_chunks commit
\* together.
SaveChunks(d) ==
    /\ tasks[d].pc = "save"
    /\ chunks' = [chunks EXCEPT ![d] = @ + tasks[d].tagged]
    /\ docs' = [docs EXCEPT ![d].processing_status = "completed",
                            ![d].total_chunks = tasks[d].tagged]
    /\ tasks' = [tasks EXCEPT ![d].pc =
                    IF docs[d].doc_type = "past_test" THEN "reward" ELSE "done"]
    /\ UNCHANGED <<now, cardVars, rewardVars, examVars, teachVars>>

\* _process_past_test after the save: analyze_exam inside its own
\* try/except and award_points, which does not raise.
RewardPastTest(d) ==
    /\ tasks[d].pc = "reward"
    /\ tasks' = [tasks EXCEPT ![d].pc = "done"]
    /\ UNCHANGED <<docs, chunks>>
    /\ UNCHANGED <<now, cardVars, rewardVars, examVars, teachVars>>

\* An exception inside the try block: a transaction that raises is rolled
\* back by get_db, extraction and tagging write nothing.
TaskFails(d) ==
    /\ tasks[d].pc \in {"start", "extract", "save"}
    /\ tasks' = [tasks EXCEPT ![d].pc = "failed", ![d].failed = TRUE]
    /\ UNCHANGED <<docs, chunks>>
    /\ UNCHANGED <<now, cardVars, rewardVars, examVars, teachVars>>

\* The except clause: a transaction that writes the error status.
MarkError(d) ==
    /\ tasks[d].pc = "failed"
    /\ docs' = [docs EXCEPT ![d].processing_status = "error",
                            ![d].error_message = TRUE]
    /\ tasks' = [tasks EXCEPT ![d].pc = "done"]
    /\ UNCHANGED chunks
    /\ UNCHANGED <<now, cardVars, rewardVars, examVars, teachVars>>

\* The except clause's transaction raises in turn: the thread ends with
\* the exception and the row stays as it was.
MarkErrorFails(d) ==
    /\ tasks[d].pc = "failed"
    /\ tasks' = [tasks EXCEPT ![d].pc = "dead"]
    /\ UNCHANGED <<docs, chunks>>
    /\ UNCHANGED <<now, cardVars, rewardVars, examVars, teachVars>>

\* ------------------------------------------------------------------------
\* AutoTeach: compute_priority, select_teaching_mode, generate_teaching_plan
\* (api/services/auto_teach.py)
\* ------------------------------------------------------------------------
\* The topics of the subject, in the order the topic_mastery query returns
\* them.
TeachTopics == <<"t1", "t2", "t3">>
TeachTopicSet == {TeachTopics[k] : k \in 1 .. Len(TeachTopics)}

\* mastery_score values of the rows: the ends of the range, both sides of
\* the mode bands, and gaps whose half is not a whole number of minutes.
MasteryLevels ==
    {0, 149000, Pct(15), Pct(35), Pct(50), Pct(55), Pct(73), Pct(75), Pct(90),
     Pct(100)}

\* Exam weights are fractions of 1; the model keeps them in twelfths.
WeightScale == 12

\* What get_aggregated_topic_weights may return: no blueprint at all, the
\* weights 1/2 and 1/4 for two topics, the weights 0 and 1 for two topics.
\* NULL marks a topic without a key in the dict.
ExamWeightTables ==
    { [t \in TeachTopicSet |-> NULL],
      [t \in TeachTopicSet |-> IF t = "t1" THEN 6 ELSE IF t = "t2" THEN 3 ELSE NULL],
      [t \in TeachTopicSet |-> IF t = "t1" THEN 0 ELSE IF t = "t3" THEN 12 ELSE NULL] }

\* max_topics and available_minutes of a request (any integer the query
\* string holds; NULL: no available_minutes parameter).
MaxTopicsInputs == {-1, 0, 1, 2, 10}
AvailableMinutesInputs == {NULL, 0, 5, 30, 60}

NoPlan == [subject |-> ""]

\* exam_weight * (1.0 - mastery / 100.0), in units of 1/(100 * Scale *
\* WeightScale).
compute_priority_WeightOnly(exam_weight, mastery_score) == exam_weight * Pct(100)

compute_priority(exam_weight, mastery_score) ==
    exam_weight * (Pct(100) - mastery_score)

\* select_teaching_mode returns the mode key and the reason text.
ModeResult(mode, reason) == [mode |-> mode, reason |-> reason]

select_teaching_mode_NoExamBranch(mastery_score, has_exam_data) ==
    IF mastery_score < Pct(35) THEN ModeResult("explain", "low mastery")
    ELSE IF mastery_score < Pct(55) THEN ModeResult("socratic", "moderate base")
    ELSE IF mastery_score < Pct(75) THEN ModeResult("hypo", "solid base")
    ELSE ModeResult("irac", "strong knowledge")

select_teaching_mode(mastery_score, has_exam_data) ==
    IF mastery_score < Pct(15) THEN ModeResult("explain", "near-zero knowledge")
    ELSE IF mastery_score < Pct(35) THEN ModeResult("explain", "low mastery")
    ELSE IF mastery_score < Pct(55) THEN ModeResult("socratic", "moderate base")
    ELSE IF mastery_score < Pct(75) THEN ModeResult("hypo", "solid base")
    ELSE IF mastery_score < Pct(90)
         THEN IF has_exam_data
              THEN ModeResult("issue_spot", "strong knowledge, exam data")
              ELSE ModeResult("irac", "strong knowledge")
    ELSE ModeResult("irac", "near-mastery")

\* max(5, int(gap * 0.5)) with gap = 100 - mastery_score; int() drops the
\* fraction.
time_estimate(mastery_score) == Max(5, (Pct(100) - mastery_score) \div (2 * Scale))

\* bool(exam_weights)
HasExamData(weights) == \E t \in TeachTopicSet : weights[t] # NULL

\* 1.0 / len(topics)
default_weight(n) == WeightScale \div n

\* exam_weights.get(t.topic, default_weight)
WeightOf(weights, topic, n) ==
    IF weights[topic] # NULL THEN weights[topic] ELSE default_weight(n)

\* The TeachingTarget built for the k-th row.
TeachingTarget(rows, weights, k) ==
    LET exam_weight == WeightOf(weights, TeachTopics[k], Len(rows))
        mode == select_teaching_mode(rows[k], HasExamData(weights))
    IN  [topic |-> TeachTopics[k],
         priority_score |-> compute_priority(exam_weight, rows[k]),
         mastery |-> rows[k],
         exam_weight |-> exam_weight,
         recommended_mode |-> mode.mode,
         mode_reason |-> mode.reason,
         time_estimate_minutes |-> time_estimate(rows[k])]

Targets(rows, weights) == [k \in 1 .. Len(rows) |-> TeachingTarget(rows, weights, k)]

\* targets.sort(key=priority_score, reverse=True): the sort is stable, and
\* with reverse=True elements of equal key still keep their order.
RECURSIVE SortTargets_Unstable(_)
SortTargets_Unstable(targets) ==
    IF targets = <<>> THEN <<>>
    ELSE LET t == Head(targets)
             rest == SortTargets_Unstable(Tail(targets))
         IN  SelectSeq(rest, LAMBDA x : x.priority_score >= t.priority_score)
             \o <<t>>
             \o SelectSeq(rest, LAMBDA x : x.priority_score < t.priority_score)

RECURSIVE SortTargets(_)
SortTargets(targets) ==
    IF targets = <<>> THEN <<>>
    ELSE LET t == Head(targets)
             rest == SortTargets(Tail(targets))
         IN  SelectSeq(rest, LAMBDA x : x.priority_score > t.priority_score)
             \o <<t>>
             \o SelectSeq(rest, LAMBDA x : x.priority_score <= t.priority_score)

\* targets[:max_topics]; a negative stop counts from the end of the list.
Truncate(targets, max_topics) ==
    IF max_topics >= 0
    THEN SubSeq(targets, 1, Min(max_topics, Len(targets)))
    ELSE SubSeq(targets, 1, Max(0, Len(targets) + max_topics))

\* The loop of lines 219-223: a target is taken whenever some budget is
\* left, and its estimate is subtracted afterwards.
RECURSIVE FitBudget(_, _)
FitBudget(targets, remaining) ==
    IF targets = <<>> \/ remaining <= 0 THEN <<>>
    ELSE <<Head(targets)>>
         \o FitBudget(Tail(targets), remaining - Head(targets).time_estimate_minutes)

RECURSIVE SumEstimates(_)
SumEstimates(targets) ==
    IF targets = <<>> THEN 0
    ELSE Head(targets).time_estimate_minutes + SumEstimates(Tail(targets))

\* generate_teaching_plan.  `if available_minutes:` treats 0 like None.  The
\* record keeps the request and the target list as built (before the sort)
\* next to the returned teaching_plan.
generate_teaching_plan(rows, weights, max_topics, available_minutes) ==
    IF rows = <<>>
    THEN [subject |-> TaxonomySubject, max_topics |-> max_topics,
          available_minutes |-> available_minutes, has_exam_data |-> FALSE,
          targets |-> <<>>, teaching_plan |-> <<>>,
          total_estimated_minutes |-> 0]
    ELSE LET targets == Targets(rows, weights)
             trimmed == Truncate(SortTargets(targets), max_topics)
             fitted == IF available_minutes # NULL /\ available_minutes # 0
                       THEN FitBudget(trimmed, available_minutes)
                       ELSE trimmed
         IN  [subject |-> TaxonomySubject, max_topics |-> max_topics,
              available_minutes |-> available_minutes,
              has_exam_data |-> HasExamData(weights),
              targets |-> targets, teaching_plan |-> fitted,
              total_estimated_minutes |-> SumEstimates(fitted)]

\* GET /plan/<subject>.  The call writes nothing, so a later request would
\* see the rows the first one saw: a run follows one request.
GeneratePlan(max_topics, available_minutes) ==
    /\ plan = NoPlan
    /\ plan' = generate_teaching_plan(topicRows, examWeights, max_topics,
                                      available_minutes)
    /\ UNCHANGED <<topicRows, examWeights>>
    /\ UNCHANGED <<now, cardVars, rewardVars, examVars, docVars>>

\* ------------------------------------------------------------------------
\* Specification of the rewards ledger
\* ------------------------------------------------------------------------
\* topic_mastery as the award calls find it: the assessment engine writes it,
\* the rewards engine only reads it.
MasteryTable ==
    [u \in Users |->
        IF u = "u1" THEN [tp \in Topics |-> IF tp = "t1" THEN Pct(85) ELSE Pct(40)]
        ELSE [tp \in Topics |-> IF tp = "t1" THEN Pct(60) ELSE Pct(90)]]

\* The tables when the run starts, on day 2.  Learner u1 ended a tutor
\* session on day 0 and on day 1 (no random bonus): four ledger rows, a
\* two-day streak, tutor_20 at 2 of 20.  Learner u2 is registered and has
\* never earned points.
SeasonedLedger ==
    <<LedgerRow("u1", 30, "tutor_session", ""), LedgerRow("u1", 10, "streak_bonus", ""),
      LedgerRow("u1", 30, "tutor_session", ""), LedgerRow("u1", 20, "streak_bonus", "")>>

SeasonedProfile ==
    [current_streak |-> 2, longest_streak |-> 2, last_active_date |-> 1,
     total_earned |-> 90, level |-> 1]

SeasonedAchievements ==
    [SeededAchievements EXCEPT !["tutor_20"].current_value = 2]

ClockStart == now = 2

RewardsIdle ==
    /\ ledger = SeasonedLedger
    /\ profiles = [u \in Users |-> IF u = "u1" THEN SeasonedProfile ELSE NoProfile]
    /\ achievements = [u \in Users |-> IF u = "u1" THEN SeasonedAchievements
                                         ELSE SeededAchievements]
    /\ writer = NoCall
    /\ calls = [c \in Calls |-> IdleCall]
    /\ lastAward = NoAward
    /\ awardCount = 0

CardsIdle ==
    /\ cards = [i \in CardIds |-> NoCard]
    /\ lastReview = NoReview
    /\ reviewCount = 0

ExamIdle ==
    /\ assessments = [a \in AssessmentIds |-> NoAssessment]
    /\ questions = [a \in AssessmentIds |-> <<>>]
    /\ signals = [p \in SignalCalls |-> IdleSignal]
    /\ lastExam = NoExam
    /\ examCount = [grades |-> 0, completions |-> 0, signals |-> 0]

DocsIdle ==
    /\ docs = [d \in DocIds |-> NoDoc]
    /\ chunks = [d \in DocIds |-> 0]
    /\ tasks = [d \in DocIds |-> NoTask]

TeachIdle ==
    /\ topicRows = <<>>
    /\ examWeights = [t \in TeachTopicSet |-> NULL]
    /\ plan = NoPlan

InitRewards ==
    /\ ClockStart
    /\ CardsIdle
    /\ RewardsIdle
    /\ ExamIdle
    /\ DocsIdle
    /\ TeachIdle
    /\ mastery = MasteryTable
    /\ subjectMastery = [u \in Users |-> [s \in Subjects |-> NULL]]

NextRewards ==
    \/ \E c \in Calls, u \in Users, a \in Activities, b \in BonusRolls :
          BeginAward(c, u, a, b)
    \/ \E c \in Calls : Flush(c)
    \/ \E c \in Calls : ReadToday(c)
    \/ \E c \in Calls : UpdateStreak(c)
    \/ \E c \in Calls : CheckAchievements(c)
    \/ \E c \in Calls : UpdateProfile(c)
    \/ \E c \in Calls : Commit(c)
    \/ \E c \in Calls : Fail(c)
    \/ Tick

SpecRewards == InitRewards /\ [][NextRewards]_vars


\* ------------------------------------------------------------------------
\* Specification of the card scheduler
\* ------------------------------------------------------------------------
InitCards ==
    /\ ClockStart
    /\ CardsIdle
    /\ RewardsIdle
    /\ ExamIdle
    /\ DocsIdle
    /\ TeachIdle
    /\ mastery = [u \in Users |-> [tp \in Topics |-> NULL]]
    /\ subjectMastery = [u \in Users |-> [s \in Subjects |-> NULL]]

NextCards ==
    \/ \E u \in Users, s \in Subjects, n \in 1 .. Cardinality(CardIds) : GenerateCards(u, s, n)
    \/ \E id \in CardIds, q \in Qualities, u \in Users : ReviewCard(id, q, u)
    \/ Tick

SpecCards == InitCards /\ [][NextCards]_vars


\* ------------------------------------------------------------------------
\* Specification of the exam simulator and the mastery tables
\* ------------------------------------------------------------------------
\* Learner u1 has the two topics of the taxonomy subject and a subject row
\* for each subject; learner u2 has no mastery rows.
ExamMasteryTable ==
    [u \in Users |->
        IF u = "u1" THEN [tp \in Topics |-> IF tp = "t1" THEN Pct(50) ELSE Pct(90)]
        ELSE [tp \in Topics |-> NULL]]

ExamSubjectTable ==
    [u \in Users |->
        IF u = "u1" THEN [s \in Subjects |-> IF s = TaxonomySubject THEN Pct(70) ELSE 0]
        ELSE [s \in Subjects |-> NULL]]

InitExam ==
    /\ ClockStart
    /\ CardsIdle
    /\ RewardsIdle
    /\ DocsIdle
    /\ TeachIdle
    /\ ExamIdle
    /\ mastery = ExamMasteryTable
    /\ subjectMastery = ExamSubjectTable

NextExam ==
    \/ \E u \in Users, s \in Subjects, n \in Counts, paper \in Papers :
          GenerateExam(u, s, n, paper)
    \/ \E a \in AssessmentIds, i \in 1 .. 3, u \in Users, out \in AllOutputs :
          GradeAnswer(a, i, u, out)
    \/ \E a \in AssessmentIds, u \in Users : CompleteExam(a, u)
    \/ \E p \in SignalCalls, sid \in SessionIds, u \in Users, deltas \in DeltaSets :
          ReadSignals(p, sid, u, deltas)
    \/ \E p \in SignalCalls : ApplySignals(p)
    \/ Tick

SpecExam == InitExam /\ [][NextExam]_vars

\* ------------------------------------------------------------------------
\* Specification of the document tasks
\* ------------------------------------------------------------------------
InitDocs ==
    /\ ClockStart
    /\ CardsIdle
    /\ RewardsIdle
    /\ DocsIdle
    /\ TeachIdle
    /\ ExamIdle
    /\ mastery = [u \in Users |-> [tp \in Topics |-> NULL]]
    /\ subjectMastery = [u \in Users |-> [s \in Subjects |-> NULL]]

NextDocs ==
    \/ \E d \in DocIds, t \in DocTypes : UploadDocument(d, t)
    \/ \E d \in DocIds : StartProcessing(d)
    \/ \E d \in DocIds, n \in TaggedCounts : TagChunks(d, n)
    \/ \E d \in DocIds : SaveChunks(d)
    \/ \E d \in DocIds : RewardPastTest(d)
    \/ \E d \in DocIds : TaskFails(d)
    \/ \E d \in DocIds : MarkError(d)
    \/ \E d \in DocIds : MarkErrorFails(d)

SpecDocs == InitDocs /\ [][NextDocs]_vars

\* A step of the background thread of document d.
TaskStep(d) ==
    \/ StartProcessing(d)
    \/ \E n \in TaggedCounts : TagChunks(d, n)
    \/ SaveChunks(d)
    \/ RewardPastTest(d)
    \/ TaskFails(d)
    \/ MarkError(d)
    \/ MarkErrorFails(d)

\* Every started thread keeps running, and each call it makes returns or
\* raises: a thread that can take a step eventually takes one.
TasksRun == \A d \in DocIds : WF_vars(TaskStep(d))

SpecDocsFair == SpecDocs /\ TasksRun

\* ------------------------------------------------------------------------
\* Specification of the teaching plan: any topic rows and exam weights,
\* any request
\* ------------------------------------------------------------------------
InitTeach ==
    /\ ClockStart
    /\ CardsIdle
    /\ RewardsIdle
    /\ DocsIdle
    /\ ExamIdle
    /\ mastery = [u \in Users |-> [tp \in Topics |-> NULL]]
    /\ subjectMastery = [u \in Users |-> [s \in Subjects |-> NULL]]
    /\ topicRows \in UNION {[1 .. n -> MasteryLevels] : n \in 0 .. Len(TeachTopics)}
    /\ examWeights \in ExamWeightTables
    /\ plan = NoPlan

NextTeach ==
    \E max_topics \in MaxTopicsInputs, available_minutes \in AvailableMinutesInputs :
        GeneratePlan(max_topics, available_minutes)

SpecTeach == InitTeach /\ [][NextTeach]_vars

\* ------------------------------------------------------------------------
\* Specification of two learners at work: awards, reviews, grading and exam
\* completion of both learners interleave
\* ------------------------------------------------------------------------
\* Operations begun in one run.
MaxOps == 3

OpsStarted ==
    awardCount + reviewCount + examCount.grades + examCount.completions

\* Both learners have the two topics of the taxonomy subject and its subject
\* row.
LearnerSubjectTable ==
    [u \in Users |-> [s \in Subjects |-> IF s = TaxonomySubject THEN Pct(70) ELSE NULL]]

\* The award complete_exam asks for: a perfect exam, no random bonus.
LearnerActivity ==
    [activity_type |-> "exam_complete", base_amount |-> 100, cards |-> 0, score |-> 100]

LearnerPaper == <<Question("mc", "t1"), Question("essay", "t1")>>

LearnerOutputs ==
    {[kind |-> "answer", correct |-> TRUE], EssayGrading(80, 60, 100, 40, 100), NoOutput}

LearnerQualities == {2, 4}

InitLearners ==
    /\ ClockStart
    /\ CardsIdle
    /\ RewardsIdle
    /\ ExamIdle
    /\ DocsIdle
    /\ TeachIdle
    /\ mastery = MasteryTable
    /\ subjectMastery = LearnerSubjectTable

LearnerAward(c, u) == OpsStarted < MaxOps /\ BeginAward(c, u, LearnerActivity, 0)

LearnerReview(id, quality, u) == OpsStarted < MaxOps /\ ReviewCard(id, quality, u)

LearnerGrade(a, index, u, out) == OpsStarted < MaxOps /\ GradeAnswer(a, index, u, out)

LearnerComplete(a, u) == OpsStarted < MaxOps /\ CompleteExam(a, u)

NextLearners ==
    \/ \E c \in Calls, u \in Users : LearnerAward(c, u)
    \/ \E c \in Calls : Flush(c)
    \/ \E c \in Calls : ReadToday(c)
    \/ \E c \in Calls : UpdateStreak(c)
    \/ \E c \in Calls : CheckAchievements(c)
    \/ \E c \in Calls : UpdateProfile(c)
    \/ \E c \in Calls : Commit(c)
    \/ \E c \in Calls : Fail(c)
    \/ \E u \in Users : GenerateCards(u, TaxonomySubject, 1)
    \/ \E id \in CardIds, q \in LearnerQualities, u \in Users : LearnerReview(id, q, u)
    \/ \E u \in Users : GenerateExam(u, TaxonomySubject, 2, LearnerPaper)
    \/ \E a \in AssessmentIds, i \in 1 .. 2, u \in Users, out \in LearnerOutputs :
          LearnerGrade(a, i, u, out)
    \/ \E a \in AssessmentIds, u \in Users : LearnerComplete(a, u)

SpecLearners == InitLearners /\ [][NextLearners]_vars

\* ------------------------------------------------------------------------
\* Properties of the card scheduler (checked under SpecCards)
\* ------------------------------------------------------------------------
Reviewed == lastReview # NoReview
ReviewedCard == cards[lastReview.id]

\* C7: every card reachable from a new card (ease 2.5, interval 1,
\* repetitions 0) by any reviews has ease_factor >= 1.3, interval_days >= 1
\* and repetitions >= 0.
C7_CardBounds ==
    \A i \in CardIds :
        cards[i] # NoCard =>
            /\ cards[i].ease_factor >= 130
            /\ cards[i].interval_days >= 1
            /\ cards[i].repetitions >= 0

\* A review whose raw ease would fall below 1.3 has been floored.
C7_Witness ==
    /\ Reviewed
    /\ lastReview.before.ease_factor
           + EaseDelta(ClampQuality(lastReview.quality)) < 130
    /\ ReviewedCard.ease_factor = 130

\* C8: a review with quality < 3 leaves repetitions = 0 and
\* interval_days = 1, whatever the card was before.
C8_LapseResets ==
    (Reviewed /\ lastReview.quality < 3) =>
        /\ ReviewedCard.repetitions = 0
        /\ ReviewedCard.interval_days = 1

\* A lapse of a card that had a longer interval and two successes.
C8_Witness ==
    /\ Reviewed
    /\ lastReview.quality < 3
    /\ lastReview.before.repetitions >= 2
    /\ lastReview.before.interval_days > 1
    /\ ReviewedCard.repetitions = 0
    /\ ReviewedCard.interval_days = 1

\* C9 as stated: every review with quality = 5 leaves interval_days
\* strictly greater than before the review.
C9_StrictlyIncreasing ==
    (Reviewed /\ lastReview.quality = 5) =>
        ReviewedCard.interval_days > lastReview.before.interval_days

\* C9 amended: a review with quality = 5 leaves interval_days strictly
\* greater when the card had repetitions >= 1 before the review, and leaves
\* it at 1 when the card had repetitions = 0 (new or lapsed card).
C9_IncreasingAfterFirst ==
    (Reviewed /\ lastReview.quality = 5) =>
        /\ lastReview.before.repetitions >= 1 =>
               ReviewedCard.interval_days > lastReview.before.interval_days
        /\ lastReview.before.repetitions = 0 =>
               /\ lastReview.before.interval_days = 1
               /\ ReviewedCard.interval_days = 1

\* The third quality-5 review in a row: the interval grows by the ease factor.
C9_Witness ==
    /\ Reviewed
    /\ lastReview.quality = 5
    /\ lastReview.before.repetitions >= 2
    /\ ReviewedCard.interval_days > lastReview.before.interval_days

SubjectFilters == Subjects \cup {NoSubject}

MatchesQuery(i, u, subject) ==
    /\ cards[i] # NoCard
    /\ cards[i].user_id = u
    /\ (subject # NoSubject => cards[i].subject = subject)

Returns(c) == calls[c].pc \in InFlight /\ calls'[c].pc = "idle"
Commits(c) == Returns(c) /\ lastAward'.committed
Fails(c) == Returns(c) /\ ~lastAward'.committed

\* The committed profile of u, a learner without one counting as new.
ProfileOf(u) == IF profiles[u] = NoProfile THEN NewProfile ELSE profiles[u]

AwardReturned == lastAward # NoAward

\* C1: award_points is atomic.  A call that fails at any sub-step leaves
\* the ledger, the profiles and the achievements as they were; a call that
\* succeeds persists all of its sub-steps at once (base row, bonus row,
\* streak row and streak change, unlocks, total_earned and level); no other
\* step of a call changes the tables.
C1_Atomic ==
    [][ /\ \A c \in Calls :
             Fails(c) => UNCHANGED <<ledger, profiles, achievements>>
        /\ \A c \in Calls :
             Commits(c) =>
                LET u == calls[c].user_id
                    r == lastAward'.result
                    keys == r.streak_info.achievements \o r.achievements_unlocked
                    added == SubSeq(ledger', Len(ledger) + 1, Len(ledger'))
                IN  /\ SubSeq(ledger', 1, Len(ledger)) = ledger
                    /\ Len(added) = 1 + (IF r.bonus # 0 THEN 1 ELSE 0)
                                      + (IF r.streak_info.is_new_day THEN 1 ELSE 0)
                                      + Len(keys)
                    /\ added[1] = LedgerRow(u, calls[c].activity.base_amount,
                                            calls[c].activity.activity_type, "")
                    /\ \A k \in 1 .. Len(added) : added[k].user_id = u
                    /\ r.streak_info.is_new_day =>
                          /\ profiles'[u].last_active_date = calls[c].today
                          /\ profiles'[u].current_streak = r.streak_info.current_streak
                    /\ \A k \in 1 .. Len(keys) :
                          /\ achievements[u][keys[k]].unlocked_at = NULL
                          /\ achievements'[u][keys[k]].unlocked_at # NULL
                    /\ profiles'[u].total_earned =
                          ProfileOf(u).total_earned + r.points_awarded
                    /\ profiles'[u].level = _calculate_level(profiles'[u].total_earned)
        /\ (\A c \in Calls : ~Returns(c)) =>
               UNCHANGED <<ledger, profiles, achievements>>
      ]_vars

\* A call failed after its streak update and its unlocks, and none of them
\* is in the tables.
C1_Witness ==
    /\ AwardReturned
    /\ ~lastAward.committed
    /\ lastAward.result.streak_info.is_new_day
    /\ lastAward.result.achievements_unlocked # <<>>
    /\ ProfileOf(lastAward.user_id).last_active_date # lastAward.today
    /\ \A k \in 1 .. Len(lastAward.result.achievements_unlocked) :
          achievements[lastAward.user_id]
              [lastAward.result.achievements_unlocked[k]].unlocked_at = NULL

\* C2: concurrent calls for one learner serialise.  When a call commits,
\* total_earned grows by its points_awarded from the committed value (no
\* increment is lost), it advances the streak only if no committed call
\* already did on that date, and its new_balance is the sum of the committed
\* rows of the learner including its own and no others.
C2_Serialised ==
    [][ \A c \in Calls :
          Commits(c) =>
             LET u == calls[c].user_id
                 r == lastAward'.result
             IN  /\ profiles'[u].total_earned =
                       ProfileOf(u).total_earned + r.points_awarded
                 /\ r.streak_info.is_new_day =>
                       ProfileOf(u).last_active_date # calls[c].today
                 /\ ~r.streak_info.is_new_day =>
                       profiles'[u].current_streak = ProfileOf(u).current_streak
                 /\ r.new_balance = SumAmounts(RowsOf(ledger', u))
      ]_vars

\* A call has committed while another call for the same learner, begun in
\* the meantime, waits for the write lock.
C2_Witness ==
    /\ AwardReturned
    /\ lastAward.committed
    /\ \E d \in Calls :
          /\ calls[d].pc = "flush"
          /\ calls[d].user_id = lastAward.user_id

\* C3: on an award event on date d, current_streak is unchanged if
\* last_active_date = d, grows by 1 if last_active_date = d - 1, and
\* becomes 1 if last_active_date <= d - 2 or the learner was never active.
C3_StreakTransition ==
    [][ \A c \in Calls :
          Commits(c) =>
             LET old == ProfileOf(calls[c].user_id)
                 new == profiles'[calls[c].user_id]
                 d == calls[c].today
             IN  /\ old.last_active_date = d =>
                       new.current_streak = old.current_streak
                 /\ (old.last_active_date # NULL /\ old.last_active_date = d - 1) =>
                       new.current_streak = old.current_streak + 1
                 /\ (old.last_active_date = NULL \/ old.last_active_date <= d - 2) =>
                       new.current_streak = 1
      ]_vars

UnlockRows(u, key) ==
    SelectSeq(ledger, LAMBDA r : /\ r.user_id = u
                                 /\ r.activity_type = "achievement_unlock"
                                 /\ r.achievement = key)

\* C4: once an achievement's unlocked_at is set, no award_points call
\* changes it, and the ledger never holds more than one achievement_unlock
\* row per learner and key.
C4_UnlockOnce ==
    [][ \A u \in Users, key \in AchievementKeys :
          /\ achievements[u][key].unlocked_at # NULL =>
                /\ achievements'[u][key].unlocked_at = achievements[u][key].unlocked_at
                /\ UnlockRows(u, key)' = UnlockRows(u, key)
          /\ Len(UnlockRows(u, key)') <= 1
      ]_vars

\* A second completed exam has committed for a learner whose first_exam and
\* perfect_exam achievements were already unlocked.
C4_Witness ==
    /\ AwardReturned
    /\ lastAward.committed
    /\ lastAward.activity.activity_type = "exam_complete"
    /\ lastAward.result.achievements_unlocked = <<>>
    /\ achievements[lastAward.user_id]["first_exam"].unlocked_at # NULL
    /\ achievements[lastAward.user_id]["perfect_exam"].unlocked_at # NULL
    /\ Len(UnlockRows(lastAward.user_id, "first_exam")) = 1

\* C5: the balance is the exact sum of the learner's ledger rows: the
\* new_balance a successful call returns equals the sum of the amounts of
\* all committed rows of the learner, which is what get_balance returns;
\* and the ledger only grows at its end.
C5_BalanceIsSum ==
    [][ /\ Len(ledger') >= Len(ledger)
        /\ SubSeq(ledger', 1, Len(ledger)) = ledger
        /\ \A c \in Calls, u \in Users :
              (Commits(c) /\ calls[c].user_id = u) =>
                 /\ lastAward'.result.new_balance = SumAmounts(RowsOf(ledger', u))
                 /\ lastAward'.result.new_balance = get_balance(u)'
      ]_vars

\* The second award of the run has committed for learner u2, after rows of
\* both learners were appended.
C5_Witness ==
    /\ AwardReturned
    /\ lastAward.committed
    /\ lastAward.user_id = "u2"
    /\ Len(RowsOf(ledger, "u2")) >= 4
    /\ Len(RowsOf(ledger, "u1")) >= 4
    /\ lastAward.result.new_balance = SumAmounts(RowsOf(ledger, "u2"))

\* C6: a call that fails returns a zero-point, no-op result: points_awarded
\* is 0 and no achievement is reported unlocked.
C6_FailureIsZeroPoint ==
    (AwardReturned /\ ~lastAward.committed) =>
        /\ lastAward.result.points_awarded = 0
        /\ lastAward.result.achievements_unlocked = <<>>

\* ------------------------------------------------------------------------
\* Claims about exams, mastery and the tutor's signals
\* ------------------------------------------------------------------------

\* C11: every topic mastery score lies between 0 and 100 inclusive, whatever
\* exam completions and tutor deltas have been applied.
C11_MasteryInRange ==
    \A u \in Users, tp \in Topics :
        mastery[u][tp] # NULL => (0 <= mastery[u][tp] /\ mastery[u][tp] <= Pct(100))

\* A tutor call with the deltas -200 and +500 has committed: one topic sits
\* at the lower end of the range and the other at the upper end.
C11_Witness ==
    /\ lastExam.op = "signal"
    /\ lastExam.ok
    /\ mastery["u1"]["t1"] = 0
    /\ mastery["u1"]["t2"] = Pct(100)

\* C12: after every committed operation that changes a topic's mastery, the
\* subject row of that learner holds the arithmetic mean of the mastery
\* scores of the subject's topic rows.
C12_SubjectIsMean ==
    [][ \A u \in Users :
          ( /\ \E tp \in Topics : mastery'[u][tp] # mastery[u][tp]
            /\ subjectMastery'[u][TaxonomySubject] # NULL )
          => subjectMastery'[u][TaxonomySubject]
                = SubjectMean(mastery', u, TaxonomySubject)
      ]_vars

\* 0.6 * old + 0.4 * sum / n, times 10 * n.
C13_Blend10n(old, scores) == 6 * Len(scores) * old + 4 * SumSeq(scores)

\* C13: complete_exam sets the mastery of each topic that has at least one
\* graded question to 0.6 times its old mastery plus 0.4 times the mean score
\* of the topic's graded questions, clamped to 0..100, and leaves every other
\* topic unchanged.
C13_ExamBlend ==
    [][ \A a \in AssessmentIds, u \in Users :
          ( /\ assessments[a] # NoAssessment
            /\ assessments[a].user_id = u
            /\ examCount'.completions = examCount.completions + 1 )
          => \A tp \in Topics :
                mastery[u][tp] # NULL =>
                   LET scores == ScoresFor(a, tp)
                       blend == C13_Blend10n(mastery[u][tp], scores)
                   IN  IF Len(scores) = 0
                       THEN mastery'[u][tp] = mastery[u][tp]
                       ELSE IF blend <= 0 THEN mastery'[u][tp] = 0
                       ELSE IF blend >= 10 * Len(scores) * Pct(100)
                            THEN mastery'[u][tp] = Pct(100)
                       ELSE 10 * Len(scores) * mastery'[u][tp] = blend
      ]_vars

\* An exam with the scores 100 and 0 on a topic at mastery 50 has been
\* completed: the topic stays at 50 and the topic without a graded question
\* keeps its mastery.
C13_Witness ==
    /\ lastExam.op = "complete"
    /\ lastExam.ok
    /\ examCount.completions = 1
    /\ examCount.signals = 0
    /\ ScoresFor("a1", "t1") = <<Pct(100), 0>>
    /\ ScoresFor("a1", "t2") = <<>>
    /\ mastery["u1"]["t1"] = Pct(50)
    /\ mastery["u1"]["t2"] = Pct(90)

\* C14: an assessment's completed_at is set exactly once: once it holds a
\* time, no later complete_exam call assigns it again.
C14_CompletedOnce ==
    [][ \A a \in AssessmentIds :
          (assessments[a] # NoAssessment /\ assessments[a].completed_at # NULL)
          => assessments'[a].completed_at = assessments[a].completed_at
      ]_vars

\* C15: when the collaborator's grading output for an essay or issue_spot
\* answer is malformed or absent, the grading call reports an error and the
\* question's score is left as it was (null for an ungraded question), so
\* that a later complete_exam moves no mastery on account of the answer.
C15_FailureLeavesUngraded ==
    [][ ( /\ examCount'.grades = examCount.grades + 1
          /\ lastExam'.out.kind \in {"malformed", "absent"} )
        => /\ ~lastExam'.ok
           /\ questions' = questions
      ]_vars

\* C16: the score stored for an essay answer graded through the collaborator
\* is 0.30 * issue_spotting + 0.20 * rule_accuracy + 0.35 * application_depth
\* + 0.15 * conclusion_support of the returned sub-scores (a sub-score the
\* collaborator leaves out counts as 50), whatever overall_score it returns.
C16_EssayWeightedSum ==
    [][ ( /\ examCount'.grades = examCount.grades + 1
          /\ lastExam'.out.kind = "json"
          /\ questions[lastExam'.id][lastExam'.index].question_type = "essay" )
        => LET g == lastExam'.out.grading
               sub(key) == IF key \in DOMAIN g THEN g[key] ELSE 50
           IN  100 * questions'[lastExam'.id][lastExam'.index].score
                  = Scale * ( 30 * sub("issue_spotting") + 20 * sub("rule_accuracy")
                            + 35 * sub("application_depth")
                            + 15 * sub("conclusion_support") )
      ]_vars

\* An essay has been graded from the sub-scores 80, 60, 100 and 40 with an
\* overall_score of 0, and its stored score is 77.
C16_Witness ==
    /\ lastExam.op = "grade"
    /\ lastExam.ok
    /\ lastExam.out = EssayGrading(80, 60, 100, 40, 0)
    /\ questions[lastExam.id][lastExam.index].question_type = "essay"
    /\ questions[lastExam.id][lastExam.index].score = Pct(77)

\* C17: in every reachable state each question's score is either null or a
\* value between 0 and 100, whatever the collaborator returned.
C17_ScoreInRange ==
    \A a \in AssessmentIds :
        \A k \in 1 .. Len(questions[a]) :
            \/ questions[a][k].score = NULL
            \/ (0 <= questions[a][k].score /\ questions[a][k].score <= Pct(100))

\* C18: a successful generate_exam call with requested count n persists
\* exactly n questions for the new assessment and sets total_questions to n,
\* however many question records the collaborator returned.
C18_ExactCount ==
    [][ \A a \in AssessmentIds :
          (assessments[a] = NoAssessment /\ assessments'[a] # NoAssessment)
          => /\ Len(questions'[a]) = lastExam'.num_questions
             /\ assessments'[a].total_questions = lastExam'.num_questions
      ]_vars

\* ------------------------------------------------------------------------
\* Claims about document processing
\* ------------------------------------------------------------------------

\* C19: a document's processing_status only moves from pending to
\* processing and from processing to completed or to error; completed and
\* error are never left, and neither is reached directly from pending.
C19_StatusMachine ==
    [][ \A d \in DocIds :
          (docs[d] # NoDoc /\ docs'[d].processing_status # docs[d].processing_status)
          => \/ /\ docs[d].processing_status = "pending"
                /\ docs'[d].processing_status = "processing"
             \/ /\ docs[d].processing_status = "processing"
                /\ docs'[d].processing_status \in {"completed", "error"}
      ]_vars

\* The task of the document has ended after an exception inside its try
\* block.
C20_RunFailed(d) == tasks[d].failed /\ tasks[d].pc \in {"done", "dead"}

\* C20: tagged content is never partially visible: a document has stored
\* chunks only if its status is completed, and then total_chunks is the
\* number of stored chunks; a run that failed partway leaves the status
\* error with an error message and no chunk stored.
C20_NoPartialContent ==
    \A d \in DocIds :
        docs[d] # NoDoc =>
           /\ chunks[d] > 0 =>
                 /\ docs[d].processing_status = "completed"
                 /\ docs[d].total_chunks = chunks[d]
           /\ C20_RunFailed(d) =>
                 /\ docs[d].processing_status = "error"
                 /\ docs[d].error_message
                 /\ chunks[d] = 0

\* ------------------------------------------------------------------------
\* Claims about the teaching plan
\* ------------------------------------------------------------------------

\* The targets taken in order while the next one's estimate still fits in
\* the remaining budget.
RECURSIVE C21_WhileFits(_, _)
C21_WhileFits(targets, remaining) ==
    IF targets = <<>> \/ Head(targets).time_estimate_minutes > remaining THEN <<>>
    ELSE <<Head(targets)>>
         \o C21_WhileFits(Tail(targets),
                          remaining - Head(targets).time_estimate_minutes)

\* C21: when available_minutes is given, the teaching plan is the prefix of
\* the priority-sorted, max_topics-truncated topic list taken while the next
\* topic's estimate still fits in the remaining budget, and
\* total_estimated_minutes never exceeds available_minutes.
C21_FitsBudget ==
    (plan # NoPlan /\ plan.available_minutes # NULL) =>
        /\ plan.teaching_plan =
              C21_WhileFits(Truncate(SortTargets(plan.targets), plan.max_topics),
                            plan.available_minutes)
        /\ plan.total_estimated_minutes <= plan.available_minutes

\* The place of a topic in the order the rows were read.
C22_Position(topic) == CHOOSE k \in 1 .. Len(TeachTopics) : TeachTopics[k] = topic

C23_Priority ==
    plan # NoPlan =>
        \A i, j \in 1 .. Len(plan.targets) :
            LET a == plan.targets[i]
                b == plan.targets[j]
            IN  /\ a.priority_score = a.exam_weight * (Pct(100) - a.mastery)
                /\ a.priority_score >= 0
                /\ (a.mastery = Pct(100) \/ a.exam_weight = 0) => a.priority_score = 0
                /\ (a.exam_weight = b.exam_weight /\ a.exam_weight > 0
                      /\ a.mastery < b.mastery)
                   => a.priority_score > b.priority_score

\* A plan over three topics of the same positive exam weight at mastery 0,
\* 50 and 100: the priorities fall from the first to the third, which is 0.
C23_Witness ==
    /\ plan # NoPlan
    /\ topicRows = <<0, Pct(50), Pct(100)>>
    /\ ~plan.has_exam_data
    /\ plan.targets[1].exam_weight > 0
    /\ plan.targets[1].priority_score > plan.targets[2].priority_score
    /\ plan.targets[2].priority_score > 0
    /\ plan.targets[3].priority_score = 0

\* The mode select_teaching_mode is to return for a mastery and has_exam_data
\* by the bands <15, <35, <55, <75, <90 and >=90.
C24_BandMode(mastery_score, has_exam_data) ==
    IF mastery_score < Pct(35) THEN "explain"
    ELSE IF mastery_score < Pct(55) THEN "socratic"
    ELSE IF mastery_score < Pct(75) THEN "hypo"
    ELSE IF mastery_score < Pct(90)
         THEN IF has_exam_data THEN "issue_spot" ELSE "irac"
    ELSE "irac"

\* The modes select_teaching_mode returns over all mastery levels, with and
\* without exam data.
C24_ModesReturned ==
    {select_teaching_mode(m, h).mode : m \in MasteryLevels, h \in BOOLEAN}

\* Every target of a plan carries the mode of its mastery band.
C24_Bands ==
    plan # NoPlan =>
        \A k \in 1 .. Len(plan.targets) :
            plan.targets[k].recommended_mode
                = C24_BandMode(plan.targets[k].mastery, plan.has_exam_data)

C30_Round(n, d) ==
    LET q == n \div d
        r == n % d
    IN  IF 2 * r < d THEN q
        ELSE IF 2 * r > d THEN q + 1
        ELSE IF q % 2 = 0 THEN q ELSE q + 1

\* C30: for every topic in a teaching plan with mastery in [0,100],
\* time_estimate_minutes equals max(5, round((100 - mastery) * 0.5)).
C30_TimeEstimate ==
    plan # NoPlan =>
        \A k \in 1 .. Len(plan.targets) :
            plan.targets[k].time_estimate_minutes
                = Max(5, C30_Round(Pct(100) - plan.targets[k].mastery, 2 * Scale))

\* ------------------------------------------------------------------------
\* Claims about the card statistics
\* ------------------------------------------------------------------------
\* The buckets of get_card_stats a card row falls in.
C27_Buckets(card) ==
    {b \in {"new", "learning", "mature"} :
        \/ b = "new" /\ card.repetitions = 0
        \/ b = "learning" /\ card.repetitions > 0 /\ card.interval_days <= 7
        \/ b = "mature" /\ card.interval_days > 7}

\* C27: the card statistics partition the learner's cards: every card is
\* counted in exactly one of new, learning and mature, so that
\* new + learning + mature = total for every learner and subject filter, and
\* every card with repetitions = 0 has interval_days = 1.
C27_StatsPartition ==
    /\ \A i \in CardIds :
          cards[i] # NoCard =>
              /\ Cardinality(C27_Buckets(cards[i])) = 1
              /\ cards[i].repetitions = 0 => cards[i].interval_days = 1
    /\ \A u \in Users, s \in Subjects \cup {NoSubject} :
          LET stats == get_card_stats(u, s, now)
          IN  stats.new + stats.learning + stats.mature = stats.total

\* A learner with a card reviewed up to an interval above seven days and a
\* card never passed: the statistics count one mature and one new card.
C27_Witness ==
    /\ \E i, j \in CardIds :
          /\ cards[i] # NoCard /\ cards[j] # NoCard
          /\ cards[i].user_id = "u1" /\ cards[j].user_id = "u1"
          /\ cards[i].interval_days > 7
          /\ cards[i].repetitions = 3
          /\ cards[j].repetitions = 0
    /\ get_card_stats("u1", NoSubject, now)
          = [total |-> 2, due |-> get_card_stats("u1", NoSubject, now).due,
             new |-> 1, learning |-> 0, mature |-> 1]

\* ------------------------------------------------------------------------
\* Claims about the termination of the document tasks
\* ------------------------------------------------------------------------
\* C28: every uploaded document whose background task runs eventually
\* reaches status completed or error: a failure of extraction, tagging or
\* storage is recorded on the document, which does not stay pending or
\* processing forever.
C28_EventuallySettled ==
    \A d \in DocIds :
        (docs[d] # NoDoc) ~>
            (docs[d] # NoDoc /\ docs[d].processing_status \in {"completed", "error"})

\* ------------------------------------------------------------------------
\* Claims about points_awarded, total_earned and the streak bonus
\* ------------------------------------------------------------------------
\* C26: for every successful award_points call, points_awarded equals the
\* sum of the amounts of all ledger rows the call appended (base, random
\* bonus, streak bonus and every achievement unlock bonus, streak
\* achievements included), and so total_earned equals the learner's ledger
\* balance after every call.
C26_PointsMatchLedger ==
    [][ \A c \in Calls :
          Commits(c) =>
             LET u == calls[c].user_id
                 added == SubSeq(ledger', Len(ledger) + 1, Len(ledger'))
             IN  /\ lastAward'.result.points_awarded = SumAmounts(added)
                 /\ profiles'[u].total_earned = SumAmounts(RowsOf(ledger', u))
      ]_vars

\* The streak_bonus rows among `rows`.
C29_StreakRows(rows) == SelectSeq(rows, LAMBDA r : r.activity_type = "streak_bonus")

\* C29: for each learner and calendar date at most one streak_bonus row is
\* appended.  A successful award on date d appends one, of amount
\* 10 * min(current_streak, 7) for the updated streak, exactly when the
\* learner was not yet active on d, and then marks the learner active on d;
\* an award on a date the learner is already active on appends none; the
\* date a learner was last active on never moves back; and
\* longest_streak >= current_streak in every state.
C29_OneStreakBonusPerDate ==
    [][ /\ \A u \in Users :
              /\ ProfileOf(u).longest_streak >= ProfileOf(u).current_streak
              /\ profiles'[u] # NoProfile =>
                    /\ profiles'[u].longest_streak >= profiles'[u].current_streak
                    /\ ProfileOf(u).last_active_date # NULL =>
                          profiles'[u].last_active_date >= ProfileOf(u).last_active_date
        /\ \A c \in Calls :
              Commits(c) =>
                 LET u == calls[c].user_id
                     d == calls[c].today
                     old == ProfileOf(u)
                     new == profiles'[u]
                     added == C29_StreakRows(
                                  SubSeq(ledger', Len(ledger) + 1, Len(ledger')))
                 IN  /\ Len(added) <= 1
                     /\ old.last_active_date = d => added = <<>>
                     /\ old.last_active_date # d =>
                           /\ Len(added) = 1
                           /\ added[1].user_id = u
                           /\ added[1].amount = 10 * Min(new.current_streak, 7)
                     /\ new.last_active_date = d
        /\ (\A c \in Calls : ~Commits(c)) =>
              C29_StreakRows(ledger') = C29_StreakRows(ledger)
      ]_vars

\* The second award of a date has committed for learner u1: the ledger
\* holds one streak_bonus row more than at the start, of 30 points for the
\* streak of 3, and the call reported no new day.
C29_Witness ==
    /\ AwardReturned
    /\ lastAward.committed
    /\ lastAward.user_id = "u1"
    /\ ~lastAward.result.streak_info.is_new_day
    /\ awardCount = 2
    /\ profiles["u1"].last_active_date = lastAward.today
    /\ profiles["u1"].current_streak = 3
    /\ Len(C29_StreakRows(RowsOf(ledger, "u1"))) = 3
    /\ C29_StreakRows(RowsOf(ledger, "u1"))[3].amount = 30

\* ------------------------------------------------------------------------
\* Claims about the separation of learners
\* ------------------------------------------------------------------------
\* The step is the return of a successful award_points call of learner u.
C25_AwardBy(u) == \E c \in Calls : Commits(c) /\ calls[c].user_id = u

\* The step is a review_card call of learner u.
C25_ReviewBy(u) == reviewCount' # reviewCount /\ lastReview'.user_id = u

\* The step is a grade_answer call of learner u that found its question.
C25_GradeBy(u) ==
    /\ examCount'.grades # examCount.grades
    /\ lastExam'.op = "grade"
    /\ lastExam'.user_id = u

\* The step is a complete_exam call of learner u that found its assessment.
C25_CompleteBy(u) ==
    /\ examCount'.completions # examCount.completions
    /\ lastExam'.op = "complete"
    /\ lastExam'.user_id = u

\* C25: operations for one learner leave every other learner's state
\* unchanged.  In every step, the ledger rows, the profile and the
\* achievements of learner b change only when an award_points call of b
\* commits, the mastery records of b only in a complete_exam call of b, a
\* card of b only in a review_card call of b, and an assessment of b or its
\* questions only in a grade_answer or complete_exam call of b.
C25_Frame ==
    [][ \A b \in Users :
          /\ (\/ RowsOf(ledger', b) # RowsOf(ledger, b)
              \/ profiles'[b] # profiles[b]
              \/ achievements'[b] # achievements[b]) => C25_AwardBy(b)
          /\ (\/ mastery'[b] # mastery[b]
              \/ subjectMastery'[b] # subjectMastery[b]) => C25_CompleteBy(b)
          /\ \A i \in CardIds :
                (cards[i] # NoCard /\ cards[i].user_id = b /\ cards'[i] # cards[i])
                    => C25_ReviewBy(b)
          /\ \A a \in AssessmentIds :
                (/\ assessments[a] # NoAssessment
                 /\ assessments[a].user_id = b
                 /\ \/ assessments'[a] # assessments[a]
                    \/ questions'[a] # questions[a])
                    => C25_GradeBy(b) \/ C25_CompleteBy(b)
      ]_vars

\* Learner u1 was awarded points and learner u2 graded and completed an
\* exam: u2 has no ledger row and no profile, the mastery of u2 moved and
\* that of u1 did not.
C25_Witness ==
    /\ AwardReturned
    /\ lastAward.committed
    /\ lastAward.user_id = "u1"
    /\ lastExam.op = "complete"
    /\ lastExam.ok
    /\ lastExam.user_id = "u2"
    /\ examCount.grades = 1
    /\ mastery["u2"] # MasteryTable["u2"]
    /\ mastery["u1"] = MasteryTable["u1"]
    /\ RowsOf(ledger, "u2") = <<>>
    /\ profiles["u2"] = NoProfile
    /\ Len(RowsOf(ledger, "u1")) > Len(SeasonedLedger)

====
